---------------------------- MODULE Spec2Model ----------------------------
(***************************************************************************)
(* A model of src/src/utils/helpers.js: the nine user-record utilities.    *)
(*                                                                         *)
(* JavaScript values are tagged records:                                   *)
(*   undefined, null, booleans, finite numbers, NaN, strings (sequences of *)
(*   one-character strings), ISO-8601 timestamp strings (the instant they  *)
(*   denote, in ticks), calendar-date strings (the day they denote),       *)
(*   arrays (sequences of values) and objects (own properties f and the    *)
(*   properties p inherited from the prototype chain).                     *)
(* A call that raises is the value Throw(e).                                *)
(*                                                                         *)
(* Every function is a pure operator; a specification draws the call and   *)
(* its argument in Init and one action per function applies it.            *)
(* deepCloneObject is modelled over a heap of containers so that aliasing  *)
(* and later mutations are observable.                                     *)
(***************************************************************************)
EXTENDS Integers, Sequences, FiniteSets, TLC

VARIABLES
    op,     \* the function being called
    arg,    \* its argument(s)
    res,    \* its result (NoResult before the call returned)
    pc,     \* "call" before the function ran, "done" after, "mutated" (clone)
    heap    \* deepCloneObject only: the containers, by reference

vars == <<op, arg, res, pc, heap>>

---------------------------------------------------------------------------
(* Bounds of the model *)

\* ticks per second: the sub-second resolution of an instant (ms in the code)
TicksPerSecond == 2
\* longest array handed to getUserStats / processExternalData
MaxUsers == 2
\* longest string handed to sanitizeInput
MaxStrLen == 4
\* longest e-mail string handed to getUserStats
MaxEmailLen == 3
\* longest requiredFields list handed to validateRequest
MaxFields == 2
\* usernames handed to isValidUsername are at most MaxNameLen + this long
NameSlack == 2

---------------------------------------------------------------------------
(* JavaScript values *)

Undef == [t |-> "undefined"]
Null == [t |-> "null"]
NaN == [t |-> "nan"]
NoResult == [t |-> "noresult"]
Bool(b) == [t |-> "boolean", b |-> b]
Num(n) == [t |-> "number", n |-> n]
Str(s) == [t |-> "string", s |-> s]
Iso(at) == [t |-> "iso", at |-> at]
DateStr(day) == [t |-> "date", day |-> day]
Arr(items) == [t |-> "array", items |-> items]
Obj(f) == [t |-> "object", f |-> f, p |-> <<>>]
ObjP(f, p) == [t |-> "object", f |-> f, p |-> p]
Throw(e) == [t |-> "throw", e |-> e]

EmptyFcn == <<>>
Range(s) == {s[i] : i \in DOMAIN s}

IsThrow(v) == v.t = "throw"
IsNullish(v) == v.t \in {"undefined", "null"}
\* typeof v == 'string'
IsStringKind(v) == v.t \in {"string", "iso", "date"}
\* ToBoolean(v)
Truthy(v) ==
    CASE v.t \in {"undefined", "null", "nan"} -> FALSE
      [] v.t = "boolean" -> v.b
      [] v.t = "number" -> v.n # 0
      [] v.t = "string" -> v.s # <<>>
      [] OTHER -> TRUE

\* array index keys: the property name of each position
IndexKey == <<"0", "1", "2", "3">>
IndexOf(k) == IF \E i \in DOMAIN IndexKey : IndexKey[i] = k
              THEN CHOOSE i \in DOMAIN IndexKey : IndexKey[i] = k
              ELSE 0

\* v[k] for a v that is neither null nor undefined
Get(v, k) ==
    CASE v.t = "object" ->
            IF k \in DOMAIN v.f THEN v.f[k]
            ELSE IF k \in DOMAIN v.p THEN v.p[k]
            ELSE Undef
      [] v.t = "array" ->
            IF IndexOf(k) \in DOMAIN v.items THEN v.items[IndexOf(k)] ELSE Undef
      [] v.t = "string" ->
            IF IndexOf(k) \in DOMAIN v.s THEN Str(<<v.s[IndexOf(k)]>>) ELSE Undef
      [] OTHER -> Undef

---------------------------------------------------------------------------
(* lodash *)

\* _.isObject: value != null && (typeof value == 'object' || 'function')
isObject(value) == value.t \in {"object", "array"}

isArray(value) == value.t = "array"

isString(value) == IsStringKind(value)

\* _.has: an own property
has(object, key) ==
    CASE object.t = "object" -> key \in DOMAIN object.f
      [] object.t = "array" -> IndexOf(key) \in DOMAIN object.items
      [] object.t = "string" -> IndexOf(key) \in DOMAIN object.s
      [] OTHER -> FALSE

\* _.hasIn: key in Object(object), own or inherited
hasIn(object, key) ==
    CASE object.t = "object" -> key \in (DOMAIN object.f \cup DOMAIN object.p)
      [] object.t = "array" -> IndexOf(key) \in DOMAIN object.items
      [] object.t = "string" -> IndexOf(key) \in DOMAIN object.s
      [] OTHER -> FALSE

\* _.pick(object, paths): a fresh plain object holding each path that is in
\* object (own or inherited); {} for null and undefined
pick(object, paths) ==
    IF IsNullish(object) THEN Obj(EmptyFcn)
    ELSE LET present == {k \in Range(paths) : hasIn(object, k)}
         IN  Obj([k \in present |-> Get(object, k)])

\* { ...a, ...b } of two plain objects: own properties, b's win
Spread(a, b) ==
    Obj([k \in DOMAIN a.f \cup DOMAIN b.f |->
            IF k \in DOMAIN b.f THEN b.f[k] ELSE a.f[k]])

---------------------------------------------------------------------------
(* formatUserData *)

formatUserData(user) ==
    pick(user, <<"id", "username", "email", "createdAt", "updatedAt">>)

---------------------------------------------------------------------------
(* validateRequest *)

DigitChar == <<"0", "1", "2", "3", "4", "5", "6", "7", "8", "9">>

\* the decimal digits of a natural number
RECURSIVE Digits(_)
Digits(n) == IF n < 10 THEN <<DigitChar[n + 1]>>
             ELSE Digits(n \div 10) \o <<DigitChar[(n % 10) + 1]>>

\* the text of a string value; the text of a timestamp or date string is
\* not modelled beyond being non-empty and free of whitespace and brackets
Chars(v) ==
    CASE v.t = "string" -> v.s
      [] v.t = "iso" -> <<"T">> \o Digits(v.at) \o <<"Z">>
      [] v.t = "date" -> <<"D">> \o Digits(v.day)

\* baseToString: value + '' (arrays: the elements' texts joined by commas)
RECURSIVE baseToString(_)
baseToString(value) ==
    CASE IsStringKind(value) -> Chars(value)
      [] value.t = "array" ->
            LET RECURSIVE Join(_)
                Join(i) == IF i > Len(value.items) THEN <<>>
                           ELSE (IF i > 1 THEN <<",">> ELSE <<>>)
                                \o baseToString(value.items[i]) \o Join(i + 1)
            IN  Join(1)
      [] value.t = "undefined" -> <<"u", "n", "d", "e", "f", "i", "n", "e", "d">>
      [] value.t = "null" -> <<"n", "u", "l", "l">>
      [] value.t = "nan" -> <<"N", "a", "N">>
      [] value.t = "boolean" ->
            IF value.b THEN <<"t", "r", "u", "e">> ELSE <<"f", "a", "l", "s", "e">>
      [] value.t = "number" ->
            IF value.n < 0 THEN <<"-">> \o Digits(-value.n) ELSE Digits(value.n)
      [] value.t = "object" ->
            <<"[", "o", "b", "j", "e", "c", "t", " ", "O", "b", "j", "e", "c", "t", "]">>

\* _.toString: '' for null and undefined
toString(value) == IF IsNullish(value) THEN <<>> ELSE baseToString(value)

\* _.isEmpty of a string
isEmpty(string) == Len(string) = 0

\* the callback of line 23
FieldFilled(body, field) ==
    has(body, field) /\ ~isEmpty(toString(Get(body, field)))

\* _.every over requiredFields
validateRequest(body, requiredFields) ==
    IF ~isObject(body) THEN Bool(FALSE)
    ELSE Bool(\A i \in DOMAIN requiredFields : FieldFilled(body, requiredFields[i]))

---------------------------------------------------------------------------
(* sanitizeInput *)

\* the characters \s matches, among those the model draws
Whitespace == {" ", "\t", "\n"}

RECURSIVE TrimStart(_)
TrimStart(s) == IF s # <<>> /\ Head(s) \in Whitespace THEN TrimStart(Tail(s)) ELSE s

RECURSIVE TrimEnd(_)
TrimEnd(s) == IF s # <<>> /\ s[Len(s)] \in Whitespace
              THEN TrimEnd(SubSeq(s, 1, Len(s) - 1)) ELSE s

\* _.trim
trim(string) == TrimEnd(TrimStart(string))

\* a replace without the g flag: only the first bracket goes
RemoveFirstBracket(string) ==
    IF \E i \in DOMAIN string : string[i] \in {"<", ">"}
    THEN LET first == CHOOSE i \in DOMAIN string :
                         /\ string[i] \in {"<", ">"}
                         /\ \A j \in 1..(i - 1) : string[j] \notin {"<", ">"}
         IN  SubSeq(string, 1, first - 1) \o SubSeq(string, first + 1, Len(string))
    ELSE string

\* string.replace(/[<>]/g, '')
RemoveBrackets(string) == SelectSeq(string, LAMBDA c : c \notin {"<", ">"})

sanitizeInput(input) ==
    IF ~isString(input) THEN Str(<<>>)
    ELSE Str(RemoveBrackets(trim(Chars(input))))

---------------------------------------------------------------------------
(* isValidUsername *)

MinNameLen == 3
MaxNameLen == 20

LowerChars == {"a", "b", "c", "d", "e", "f", "g", "h", "i", "j", "k", "l", "m",
               "n", "o", "p", "q", "r", "s", "t", "u", "v", "w", "x", "y", "z"}
UpperChars == {"A", "B", "C", "D", "E", "F", "G", "H", "I", "J", "K", "L", "M",
               "N", "O", "P", "Q", "R", "S", "T", "U", "V", "W", "X", "Y", "Z"}
DigitChars == Range(DigitChar)

\* /^[a-zA-Z0-9_]+$/.test(string)
MatchesWord(string) ==
    /\ Len(string) >= 1
    /\ \A i \in DOMAIN string :
          string[i] \in LowerChars \cup UpperChars \cup DigitChars \cup {"_"}

isValidUsername(username) ==
    IF ~isString(username) THEN Bool(FALSE)
    ELSE Bool(/\ Len(Chars(username)) >= MinNameLen
              /\ Len(Chars(username)) <= MaxNameLen
              /\ MatchesWord(Chars(username)))

---------------------------------------------------------------------------
(* mergeUserDefaults *)

defaults ==
    Obj([role |-> Str(<<"u", "s", "e", "r">>),
         active |-> Bool(TRUE),
         preferences |-> Obj([theme |-> Str(<<"l", "i", "g", "h", "t">>),
                              notifications |-> Bool(TRUE),
                              language |-> Str(<<"e", "n">>)]),
         metadata |-> Obj([lastLogin |-> Null,
                           loginCount |-> Num(0),
                           createdBy |-> Str(<<"s", "y", "s", "t", "e", "m">>)])])

TopWhitelist == <<"role", "active">>
PreferencesWhitelist == <<"theme", "notifications", "language">>
MetadataWhitelist == <<"lastLogin", "loginCount", "createdBy">>

\* x || {}
OrEmpty(x) == IF Truthy(x) THEN x ELSE Obj(EmptyFcn)

\* a merge that spreads the caller's objects instead of picking from them
OwnOf(v) == IF v.t = "object" THEN Obj(v.f) ELSE Obj(EmptyFcn)

mergeUserDefaultsUnpicked(userData) ==
    IF IsNullish(userData) THEN Throw("TypeError")
    ELSE Spread(
            Spread(defaults, OwnOf(userData)),
            Obj([preferences |->
                    Spread(defaults.f.preferences,
                           OwnOf(OrEmpty(Get(userData, "preferences")))),
                 metadata |->
                    Spread(defaults.f.metadata,
                           OwnOf(OrEmpty(Get(userData, "metadata"))))]))

\* reading userData.preferences raises a TypeError on null and undefined
mergeUserDefaults(userData) ==
    IF IsNullish(userData) THEN Throw("TypeError")
    ELSE Spread(
            Spread(defaults, pick(userData, TopWhitelist)),
            Obj([preferences |->
                    Spread(defaults.f.preferences,
                           pick(OrEmpty(Get(userData, "preferences")),
                                PreferencesWhitelist)),
                 metadata |->
                    Spread(defaults.f.metadata,
                           pick(OrEmpty(Get(userData, "metadata")),
                                MetadataWhitelist))]))

---------------------------------------------------------------------------
(* moment *)

SecondsPerDay == 86400
DayTicks == SecondsPerDay * TicksPerSecond

\* the wall clock at the call, in ticks since the epoch
Now == 100 * DayTicks

InvalidMoment == [valid |-> FALSE]
Moment(at) == [valid |-> TRUE, at |-> at]

\* moment(input): undefined is the current instant; null, '' and a string
\* that is no date are invalid; a timestamp string is the instant it denotes
moment(input) ==
    CASE input.t = "undefined" -> Moment(Now)
      [] input.t = "null" -> InvalidMoment
      [] input.t = "string" -> InvalidMoment
      [] input.t = "iso" -> Moment(input.at)
      [] input.t = "date" -> Moment(input.day * DayTicks)

\* absFloor: truncation toward zero of a / b (b > 0)
absFloor(a, b) == IF a >= 0 THEN a \div b ELSE -((-a) \div b)

\* this.diff(that, 'days'): NaN when either is invalid, else the whole days
\* from that to this, truncated toward zero (no change of UTC offset between)
diff(this, that) ==
    IF ~this.valid \/ ~that.valid THEN NaN
    ELSE Num(absFloor(this.at - that.at, DayTicks))

\* m.unix(): Math.floor(m.valueOf() / 1000), NaN when invalid
unix(m) == IF m.valid THEN Num(m.at \div TicksPerSecond) ELSE NaN

\* x < n in place of x <= n
LessStrict(x, n) == x.t = "number" /\ x.n < n

\* x <= n for a number or NaN x
LessEq(x, n) == x.t = "number" /\ x.n <= n

---------------------------------------------------------------------------
(* processExternalData *)

ItemWhitelist == <<"id", "name", "email", "metadata">>

\* an item whose metadata is passed on as it is
processItemUnfiltered(item) ==
    LET safeItem == pick(item, ItemWhitelist)
    IN  Obj([id |-> Get(safeItem, "id"),
             name |-> Get(safeItem, "name"),
             email |-> Get(safeItem, "email"),
             processedAt |-> Iso(Now),
             metadata |-> OwnOf(OrEmpty(Get(safeItem, "metadata")))])

processItem(item) ==
    LET safeItem == pick(item, ItemWhitelist)
        metadata == pick(OrEmpty(Get(safeItem, "metadata")), MetadataWhitelist)
    IN  Obj([id |-> Get(safeItem, "id"),
             name |-> Get(safeItem, "name"),
             email |-> Get(safeItem, "email"),
             processedAt |-> Iso(Now),
             metadata |-> metadata])

\* _.map over data
processExternalData(data) ==
    IF ~isArray(data) THEN Arr(<<>>)
    ELSE Arr([i \in DOMAIN data.items |-> processItem(data.items[i])])

---------------------------------------------------------------------------
(* getUserStats *)

ActiveDays == 30

Unknown == <<"u", "n", "k", "n", "o", "w", "n">>

\* a countBy result: counts keyed by computed strings
Dict(f) == [t |-> "dict", f |-> f]

\* the filter callback of line 135: TRUE when the user counts as active
IsActive(user) ==
    LET updatedAt == Get(user, "updatedAt")
        lastActive == moment(IF Truthy(updatedAt) THEN updatedAt
                             ELSE Get(user, "createdAt"))
    IN  LessEq(diff(Moment(Now), lastActive), ActiveDays)

createdUnix(user) == unix(moment(Get(user, "createdAt")))

\* a > b and a < b of lodash's baseGt and baseLt, on numbers and NaN
baseGt(a, b) == a.t = "number" /\ b.t = "number" /\ a.n > b.n
baseLt(a, b) == a.t = "number" /\ b.t = "number" /\ a.n < b.n

\* baseExtremum with createdUnix as iteratee and baseGt ("gt") or baseLt as
\* comparator: the first element whose key beats every earlier one; a NaN
\* key never becomes the computed key; undefined for an empty array
RECURSIVE baseExtremum(_, _, _, _, _)
baseExtremum(array, comparator, index, computed, result) ==
    IF index > Len(array) THEN result
    ELSE LET value == array[index]
             current == createdUnix(value)
             take == IF computed = Undef THEN current.t = "number"
                     ELSE IF comparator = "gt" THEN baseGt(current, computed)
                     ELSE baseLt(current, computed)
         IN  IF take
             THEN baseExtremum(array, comparator, index + 1, current, value)
             ELSE baseExtremum(array, comparator, index + 1, computed, result)

\* _.maxBy(users, user => moment(user.createdAt).unix())
maxBy(array) == baseExtremum(array, "gt", 1, Undef, Undef)

\* _.minBy(users, user => moment(user.createdAt).unix())
minBy(array) == baseExtremum(array, "lt", 1, Undef, Undef)

\* string.includes('@')
IncludesAt(string) == \E i \in DOMAIN string : string[i] = "@"

\* string.split('@'): the pieces between the separators
RECURSIVE SplitFrom(_, _, _)
SplitFrom(string, i, piece) ==
    IF i > Len(string) THEN <<piece>>
    ELSE IF string[i] = "@" THEN <<piece>> \o SplitFrom(string, i + 1, <<>>)
    ELSE SplitFrom(string, i + 1, Append(piece, string[i]))

split(string) == SplitFrom(string, 1, <<>>)

\* the key taken before the separator: split('@')[0]
domainKeyLocalPart(user) ==
    LET e == Get(user, "email")
        email == IF Truthy(e) THEN e ELSE Str(<<>>)
    IN  CASE IsStringKind(email) ->
                IF IncludesAt(Chars(email)) THEN Str(split(Chars(email))[1])
                ELSE Str(Unknown)
          [] OTHER -> Throw("TypeError")

\* the countBy callback of line 146: the key of a user, or a TypeError when
\* the truthy email has no includes method (a number, true, an object) or,
\* an array holding '@', no split method
domainKey(user) ==
    LET e == Get(user, "email")
        email == IF Truthy(e) THEN e ELSE Str(<<>>)
    IN  CASE IsStringKind(email) ->
                IF IncludesAt(Chars(email)) THEN Str(split(Chars(email))[2])
                ELSE Str(Unknown)
          [] email.t = "array" ->
                IF \E i \in DOMAIN email.items : email.items[i] = Str(<<"@">>)
                THEN Throw("TypeError") ELSE Str(Unknown)
          [] OTHER -> Throw("TypeError")

\* _.countBy: one pass over the array, adding one under each element's key
RECURSIVE countByFrom(_, _, _)
countByFrom(array, index, result) ==
    IF index > Len(array) THEN result
    ELSE LET key == domainKey(array[index]).s
         IN  countByFrom(array, index + 1,
                IF key \in DOMAIN result
                THEN [result EXCEPT ![key] = result[key] + 1]
                ELSE (key :> 1) @@ result)

countBy(array) == countByFrom(array, 1, EmptyFcn)

\* user.updatedAt raises a TypeError on a null or undefined element, and the
\* countBy callback may raise; the result object is built otherwise
getUserStats(users) ==
    IF ~isArray(users) THEN Null
    ELSE IF \E i \in DOMAIN users.items : IsNullish(users.items[i])
         THEN Throw("TypeError")
    ELSE IF \E i \in DOMAIN users.items : IsThrow(domainKey(users.items[i]))
         THEN Throw("TypeError")
    ELSE LET activeUsers == SelectSeq(users.items, IsActive)
         IN  Obj([total |-> Num(Len(users.items)),
                  active |-> Num(Len(activeUsers)),
                  inactive |-> Num(Len(users.items) - Len(activeUsers)),
                  newest |-> maxBy(users.items),
                  oldest |-> minBy(users.items),
                  byDomain |-> Dict(countBy(users.items))])

---------------------------------------------------------------------------
(* generateRandomUser *)

firstNames ==
    << <<"J", "o", "h", "n">>, <<"J", "a", "n", "e">>,
       <<"M", "i", "c", "h", "a", "e", "l">>, <<"S", "a", "r", "a", "h">>,
       <<"D", "a", "v", "i", "d">>, <<"E", "m", "i", "l", "y">>,
       <<"C", "h", "r", "i", "s">>, <<"J", "e", "s", "s", "i", "c", "a">>,
       <<"R", "y", "a", "n">>, <<"A", "s", "h", "l", "e", "y">> >>

lastNames ==
    << <<"S", "m", "i", "t", "h">>, <<"J", "o", "h", "n", "s", "o", "n">>,
       <<"W", "i", "l", "l", "i", "a", "m", "s">>, <<"B", "r", "o", "w", "n">>,
       <<"J", "o", "n", "e", "s">>, <<"G", "a", "r", "c", "i", "a">>,
       <<"M", "i", "l", "l", "e", "r">>, <<"D", "a", "v", "i", "s">>,
       <<"R", "o", "d", "r", "i", "g", "u", "e", "z">>,
       <<"M", "a", "r", "t", "i", "n", "e", "z">> >>

domains ==
    << <<"e", "x", "a", "m", "p", "l", "e", ".", "c", "o", "m">>,
       <<"t", "e", "s", "t", ".", "o", "r", "g">>,
       <<"s", "a", "m", "p", "l", "e", ".", "n", "e", "t">>,
       <<"d", "e", "m", "o", ".", "c", "o">> >>

\* the lower-case letter of each upper-case letter
LowerOf ==
    [c \in UpperChars |->
        CASE c = "A" -> "a" [] c = "B" -> "b" [] c = "C" -> "c" [] c = "D" -> "d"
          [] c = "E" -> "e" [] c = "F" -> "f" [] c = "G" -> "g" [] c = "H" -> "h"
          [] c = "I" -> "i" [] c = "J" -> "j" [] c = "K" -> "k" [] c = "L" -> "l"
          [] c = "M" -> "m" [] c = "N" -> "n" [] c = "O" -> "o" [] c = "P" -> "p"
          [] c = "Q" -> "q" [] c = "R" -> "r" [] c = "S" -> "s" [] c = "T" -> "t"
          [] c = "U" -> "u" [] c = "V" -> "v" [] c = "W" -> "w" [] c = "X" -> "x"
          [] c = "Y" -> "y" [] c = "Z" -> "z"]

\* _.toLower
toLower(string) ==
    [i \in DOMAIN string |->
        IF string[i] \in UpperChars THEN LowerOf[string[i]] ELSE string[i]]

\* the values _.random(lower, upper) can return
random(lower, upper) == lower..upper

\* the indexes _.sample(array) can pick
sample(array) == DOMAIN array

\* the draws of one call: the three samples and the three random numbers
Draws ==
    [first : sample(firstNames), last : sample(lastNames),
     number : random(100, 999), domain : sample(domains),
     createdDays : random(1, 100), joinDays : random(1, 365)]

\* moment().subtract(days, 'days'), with no change of UTC offset between
subtractDays(days) == Moment(Now - days * DayTicks)

\* m.toISOString()
toISOString(m) == Iso(m.at)

\* m.format('YYYY-MM-DD'): the calendar day of the instant
formatDate(m) == DateStr(m.at \div DayTicks)

\* a username built with a space between the names, as fullName is
generateRandomUserSpaced(draw) ==
    LET firstName == firstNames[draw.first]
        lastName == lastNames[draw.last]
        username == toLower(firstName \o <<" ">> \o lastName \o Digits(draw.number))
        email == username \o <<"@">> \o domains[draw.domain]
    IN  Obj([username |-> Str(username),
             email |-> Str(email),
             createdAt |-> toISOString(subtractDays(draw.createdDays)),
             profile |-> Obj([firstName |-> Str(firstName),
                              lastName |-> Str(lastName),
                              fullName |-> Str(firstName \o <<" ">> \o lastName),
                              joinDate |-> formatDate(subtractDays(draw.joinDays))])])

generateRandomUser(draw) ==
    LET firstName == firstNames[draw.first]
        lastName == lastNames[draw.last]
        username == toLower(firstName \o lastName \o Digits(draw.number))
        email == username \o <<"@">> \o domains[draw.domain]
    IN  Obj([username |-> Str(username),
             email |-> Str(email),
             createdAt |-> toISOString(subtractDays(draw.createdDays)),
             profile |-> Obj([firstName |-> Str(firstName),
                              lastName |-> Str(lastName),
                              fullName |-> Str(firstName \o <<" ">> \o lastName),
                              joinDate |-> formatDate(subtractDays(draw.joinDays))])])

---------------------------------------------------------------------------
(* deepCloneObject, over a heap *)

\* Containers live in the heap, a sequence of cells: a cell is an object or
\* an array whose slots hold primitives or references Ref(r) to cells.
Ref(r) == [t |-> "ref", r |-> r]
IsRef(v) == v.t = "ref"

\* the references a cell's slots hold
CellRefs(cell) ==
    IF cell.t = "object"
    THEN {cell.f[k].r : k \in {k \in DOMAIN cell.f : IsRef(cell.f[k])}}
    ELSE {cell.items[i].r : i \in {i \in DOMAIN cell.items : IsRef(cell.items[i])}}

\* the cells reachable from a value
RECURSIVE ReachFrom(_, _, _)
ReachFrom(h, frontier, seen) ==
    IF frontier \subseteq seen THEN seen
    ELSE LET r == CHOOSE r \in frontier \ seen : TRUE
         IN  ReachFrom(h, (frontier \cup CellRefs(h[r])) \ {r}, seen \cup {r})

Reach(h, v) == IF IsRef(v) THEN ReachFrom(h, {v.r}, {}) ELSE {}

\* JSON.stringify's walk: the document of a value. undefined (and so a
\* property holding it) has none; in an array undefined becomes null; NaN
\* becomes null; a container met again below itself is a cycle: TypeError.
RECURSIVE serialize(_, _, _)
serialize(h, v, stack) ==
    CASE v.t = "undefined" -> Undef
      [] v.t = "nan" -> Null
      [] v.t \in {"null", "boolean", "number", "string"} -> v
      [] v.t = "ref" ->
            IF v.r \in stack THEN Throw("TypeError")
            ELSE LET cell == h[v.r]
                     below == stack \cup {v.r}
                 IN  IF cell.t = "array"
                     THEN LET items == [i \in DOMAIN cell.items |->
                                          serialize(h, cell.items[i], below)]
                          IN  IF \E i \in DOMAIN items : IsThrow(items[i])
                              THEN Throw("TypeError")
                              ELSE Arr([i \in DOMAIN items |->
                                          IF items[i] = Undef THEN Null
                                          ELSE items[i]])
                     ELSE LET props == [k \in DOMAIN cell.f |->
                                          serialize(h, cell.f[k], below)]
                              kept == {k \in DOMAIN props : props[k] # Undef}
                          IN  IF \E k \in DOMAIN props : IsThrow(props[k])
                              THEN Throw("TypeError")
                              ELSE Obj([k \in kept |-> props[k]])

\* JSON.stringify(value)
stringify(h, value) == serialize(h, value, {})

\* JSON.parse's construction: every array and object of the document is a
\* fresh cell appended to the heap
RECURSIVE revive(_, _)
RECURSIVE reviveItems(_, _, _, _)
RECURSIVE reviveProps(_, _, _, _)

reviveItems(h, items, i, done) ==
    IF i > Len(items) THEN [heap |-> h, slots |-> done]
    ELSE LET r == revive(h, items[i])
         IN  reviveItems(r.heap, items, i + 1, Append(done, r.value))

reviveProps(h, props, keys, done) ==
    IF keys = {} THEN [heap |-> h, slots |-> done]
    ELSE LET k == CHOOSE k \in keys : TRUE
             r == revive(h, props[k])
         IN  reviveProps(r.heap, props, keys \ {k}, (k :> r.value) @@ done)

revive(h, doc) ==
    CASE doc.t = "array" ->
            LET r == reviveItems(h, doc.items, 1, <<>>)
            IN  [heap |-> Append(r.heap, Arr(r.slots)),
                 value |-> Ref(Len(r.heap) + 1)]
      [] doc.t = "object" ->
            LET r == reviveProps(h, doc.f, DOMAIN doc.f, EmptyFcn)
            IN  [heap |-> Append(r.heap, Obj(r.slots)),
                 value |-> Ref(Len(r.heap) + 1)]
      [] OTHER -> [heap |-> h, value |-> doc]

\* a copy of the outer container only, its slots still the original's
shallowCloneObject(h, obj) ==
    IF IsRef(obj) THEN [heap |-> Append(h, h[obj.r]), value |-> Ref(Len(h) + 1)]
    ELSE [heap |-> h, value |-> obj]

\* JSON.parse(JSON.stringify(obj)): stringify raises on a cycle; it returns
\* undefined for undefined, which JSON.parse rejects with a SyntaxError
deepCloneObject(h, obj) ==
    LET text == stringify(h, obj)
    IN  IF IsThrow(text) THEN [heap |-> h, value |-> text]
        ELSE IF text = Undef THEN [heap |-> h, value |-> Throw("SyntaxError")]
        ELSE revive(h, text)

---------------------------------------------------------------------------
(* The arguments the specifications draw *)

SeqsUpTo(S, n) == UNION {[1..k -> S] : k \in 0..n}

\* a property that may be absent: no property, or key with one of values
Optional(key, values) == {EmptyFcn} \cup {key :> v : v \in values}

Admin == Str(<<"a", "d", "m", "i", "n">>)
Dark == Str(<<"d", "a", "r", "k">>)
Garbage == Str(<<"n", "o", "t", " ", "a", " ", "d", "a", "t", "e">>)
Mail == Str(<<"a", "@", "x", ".", "c", "o", "m">>)
Polluted == [polluted |-> Bool(TRUE)]

NonObjects == {Undef, Null, Num(42), Bool(TRUE), Str(<<"x">>)}

\* formatUserData: users holding any of these properties, and non-objects
SampleUser ==
    [id |-> Num(1), username |-> Str(<<"b", "o", "b">>), email |-> Mail,
     createdAt |-> Iso(Now - DayTicks), updatedAt |-> Iso(Now),
     profile |-> Obj([firstName |-> Str(<<"B", "o", "b">>)]),
     preferences |-> Obj([theme |-> Dark]),
     metadata |-> Obj([loginCount |-> Num(3)]),
     password |-> Str(<<"p", "w">>)]

FormatInputs ==
    {Obj([k \in K |-> SampleUser[k]]) : K \in SUBSET DOMAIN SampleUser}
    \cup NonObjects \cup {Arr(<<Num(1)>>)}

\* validateRequest: bodies over the fields a and b, arrays and non-objects
FieldValues ==
    {Str(<<>>), Str(<<"x">>), Str(<<" ">>), Null, Undef, Num(0), Bool(FALSE),
     Arr(<<>>), Arr(<<Null>>), Obj(EmptyFcn)}

ValidateBodies ==
    {Obj(a @@ b) : a \in Optional("a", FieldValues), b \in Optional("b", FieldValues)}
    \cup {Arr(<<>>), Arr(<<Str(<<"x">>)>>), Arr(<<Str(<<>>)>>)}
    \cup NonObjects

FieldLists == SeqsUpTo({"a", "b", "0"}, MaxFields)

\* sanitizeInput: every string over these characters, and non-strings
SanitizeInputs ==
    {Str(s) : s \in SeqsUpTo({"<", ">", " ", "a"}, MaxStrLen)}
    \cup {Str(<<"\t", "<", "\n">>), Iso(Now)}
    \cup {Undef, Null, Num(42), Bool(TRUE), Arr(<<Str(<<"<">>)>>), Obj(EmptyFcn)}

\* isValidUsername: a..a of every length, with at most one other character
UsernameInputs ==
    {Str([i \in 1..n |-> IF i = at THEN c ELSE "a"]) :
        n \in 0..(MaxNameLen + NameSlack), at \in 0..(MaxNameLen + NameSlack),
        c \in {"a", "_", "Z", "7", " ", "!", "-"}}
    \cup {Undef, Null, Num(42), Arr(<<>>), Obj(EmptyFcn)}

\* mergeUserDefaults: user data with whitelisted and other keys at each level,
\* own and inherited, whitelisted keys holding primitives or objects
PreferencesValues ==
    {ObjP(th @@ x, inh) :
        th \in Optional("theme", {Dark, Obj(Polluted)}),
        x \in {EmptyFcn, Polluted, [__proto__ |-> Obj(Polluted)]},
        inh \in {EmptyFcn, Polluted, [theme |-> Str(<<"h", "a", "c", "k">>)]}}
    \cup {Null, Num(0), Str(<<"x">>), Arr(<<>>)}

MetadataValues ==
    {Obj(lc @@ x) :
        lc \in Optional("loginCount", {Num(7)}),
        x \in {EmptyFcn, [extra |-> Str(<<"d", "r", "o", "p">>)],
               [constructor |-> Obj(Polluted)]}}
    \cup {Null}

MergeInputs ==
    {ObjP(r @@ a @@ pr @@ m @@ x, inh) :
        r \in Optional("role", {Admin, Null, Obj(Polluted)}),
        a \in Optional("active", {Bool(FALSE)}),
        pr \in Optional("preferences", PreferencesValues),
        m \in Optional("metadata", MetadataValues),
        x \in {EmptyFcn, Polluted, [__proto__ |-> Obj(Polluted)],
               [constructor |-> Obj(Polluted)]},
        inh \in {EmptyFcn, [role |-> Str(<<"r", "o", "o", "t">>)]}}
    \cup NonObjects \cup {Arr(<<>>)}

\* processExternalData: arrays of items, and non-arrays
ExternalItems ==
    {Obj(i @@ r @@ m) :
        i \in Optional("id", {Num(1), Num(2)}),
        r \in {EmptyFcn, [name |-> Str(<<"A">>), email |-> Mail],
               [name |-> Str(<<"A">>), email |-> Mail,
                extra |-> Str(<<"d", "r", "o", "p">>)]},
        m \in Optional("metadata",
                       {Null, Str(<<"x">>),
                        Obj([lastLogin |-> Iso(Now),
                             extra |-> Str(<<"d", "r", "o", "p">>)])})}
    \cup {Null, Num(42)}

ProcessInputs ==
    {Arr(items) : items \in SeqsUpTo(ExternalItems, MaxUsers)}
    \cup NonObjects \cup {Obj([length |-> Num(1)])}

\* getUserStats, malformed: arrays of elements that are no user records
MalformedUsers ==
    {Null, Undef, Num(5),
     Obj([email |-> Num(42)]), Obj([email |-> Bool(TRUE)]),
     Obj([email |-> Obj(EmptyFcn)]), Obj([email |-> Arr(<<>>)]),
     Obj([email |-> Arr(<<Str(<<"@">>)>>)]),
     Obj([email |-> Mail, createdAt |-> Garbage]),
     Obj([email |-> Mail, createdAt |-> Iso(Now - DayTicks)])}

MalformedStatsInputs ==
    {Arr(users) : users \in SeqsUpTo(MalformedUsers, MaxUsers)}
    \cup NonObjects \cup {Obj([length |-> Num(1)])}

\* getUserStats, records: each element gets its position as id
WithIds(users) ==
    [i \in DOMAIN users |-> Obj(("id" :> Num(i)) @@ users[i].f)]

\* instants at the edges of the activity window, before and after Now
EdgeInstants ==
    {Now, Now - ActiveDays * DayTicks, Now - (ActiveDays + 1) * DayTicks + 1,
     Now - (ActiveDays + 1) * DayTicks, Now + (ActiveDays + 1) * DayTicks + 1}

\* timestamps that vary updatedAt and createdAt
ActivityUsers ==
    {Obj(u @@ c) :
        u \in Optional("updatedAt", {Null, Str(<<>>)}),
        c \in Optional("createdAt", {Null, Garbage} \cup {Iso(at) : at \in EdgeInstants})}
    \cup
    {Obj(u @@ c) :
        u \in {"updatedAt" :> v : v \in {Garbage} \cup {Iso(at) : at \in EdgeInstants}},
        c \in Optional("createdAt", {Iso(Now), Iso(Now - (ActiveDays + 1) * DayTicks)})}

\* createdAt instants within one second and in the next, and unusable ones
ExtremeUsers ==
    {Obj(c) :
        c \in Optional("createdAt",
                       {Null, Garbage}
                       \cup {Iso(Now - DayTicks + j) : j \in 0..TicksPerSecond})}

\* every e-mail over a letter and the separator, and absent or empty ones
DomainUsers ==
    {Obj(e @@ [createdAt |-> Iso(Now - DayTicks)]) :
        e \in Optional("email",
                       {Null} \cup {Str(s) : s \in SeqsUpTo({"a", "@"}, MaxEmailLen)})}

RecordStatsInputs ==
    {Arr(WithIds(users)) :
        users \in SeqsUpTo(ActivityUsers, MaxUsers)
                  \cup SeqsUpTo(ExtremeUsers, MaxUsers)
                  \cup SeqsUpTo(DomainUsers, MaxUsers)}

\* generateRandomUser: every name, number and domain, and the ends of the
\* two day ranges
GenDraws ==
    {d \in [first : sample(firstNames), last : sample(lastNames),
            number : random(100, 999), domain : sample(domains),
            createdDays : {1, 100}, joinDays : {1, 365}] : d \in Draws}

\* deepCloneObject: a chain of at most MaxCells containers, each an object
\* over the keys a and b or an array of at most one element, whose slots hold
\* primitives or the next container; the last may close a cycle to the first
MaxCells == 2

ClonePrims == {Undef, NaN, Num(1)}

SlotValues(i) == ClonePrims \cup {Ref(IF i < MaxCells THEN i + 1 ELSE 1)}

Cells(i) ==
    {Obj(a @@ b) : a \in Optional("a", SlotValues(i)), b \in Optional("b", SlotValues(i))}
    \cup {Arr(items) : items \in SeqsUpTo(SlotValues(i), 1)}

Heaps == {h \in [1..MaxCells -> UNION {Cells(i) : i \in 1..MaxCells}] :
            \A i \in 1..MaxCells : h[i] \in Cells(i)}

---------------------------------------------------------------------------
(* The calls *)

Call(name) == pc = "call" /\ op = name

Return(value) == res' = value /\ pc' = "done" /\ UNCHANGED <<op, arg, heap>>

FormatUserData == Call("formatUserData") /\ Return(formatUserData(arg))

ValidateRequest ==
    Call("validateRequest") /\ Return(validateRequest(arg.body, arg.requiredFields))

SanitizeInput == Call("sanitizeInput") /\ Return(sanitizeInput(arg))

IsValidUsername == Call("isValidUsername") /\ Return(isValidUsername(arg))

MergeUserDefaults == Call("mergeUserDefaults") /\ Return(mergeUserDefaults(arg))

GetUserStats == Call("getUserStats") /\ Return(getUserStats(arg))

ProcessExternalData == Call("processExternalData") /\ Return(processExternalData(arg))

GenerateRandomUser == Call("generateRandomUser") /\ Return(generateRandomUser(arg))

DeepCloneObject ==
    /\ Call("deepCloneObject")
    /\ LET r == deepCloneObject(heap, arg)
       IN  heap' = r.heap /\ res' = r.value
    /\ pc' = "done"
    /\ UNCHANGED <<op, arg>>

\* the caller's later writes into a container: container[key] = 7,
\* delete container[key], array.push(7)
Written == Num(7)

Mutations(cell) ==
    IF cell.t = "object"
    THEN {Obj((k :> Written) @@ cell.f) : k \in {"a", "b"}}
         \cup {Obj([j \in DOMAIN cell.f \ {k} |-> cell.f[j]]) : k \in DOMAIN cell.f}
    ELSE {Arr([cell.items EXCEPT ![i] = Written]) : i \in DOMAIN cell.items}
         \cup {Arr(Append(cell.items, Written))}

Mutate(root, side) ==
    /\ pc = "done" /\ op = "deepCloneObject" /\ ~IsThrow(res)
    /\ \E r \in Reach(heap, root) :
          \E cell \in Mutations(heap[r]) :
             /\ cell # heap[r]
             /\ heap' = [heap EXCEPT ![r] = cell]
    /\ pc' = side
    /\ UNCHANGED <<op, arg, res>>

MutateClone == Mutate(res, "mutatedClone")

MutateOriginal == Mutate(arg, "mutatedOriginal")

---------------------------------------------------------------------------
(* Specifications *)

Start == pc = "call" /\ res = NoResult

\* the seven request-path functions, on well-formed and malformed arguments
Init ==
    /\ Start /\ heap = <<>>
    /\ \/ op = "formatUserData" /\ arg \in FormatInputs
       \/ op = "validateRequest"
          /\ \E b \in ValidateBodies, fs \in FieldLists :
                arg = [body |-> b, requiredFields |-> fs]
       \/ op = "sanitizeInput" /\ arg \in SanitizeInputs
       \/ op = "isValidUsername" /\ arg \in UsernameInputs
       \/ op = "mergeUserDefaults" /\ arg \in MergeInputs
       \/ op = "getUserStats" /\ arg \in MalformedStatsInputs
       \/ op = "processExternalData" /\ arg \in ProcessInputs

Next ==
    \/ FormatUserData
    \/ ValidateRequest
    \/ SanitizeInput
    \/ IsValidUsername
    \/ MergeUserDefaults
    \/ GetUserStats
    \/ ProcessExternalData

Spec == Init /\ [][Next]_vars

\* getUserStats on arrays of user records
InitStats ==
    Start /\ heap = <<>> /\ op = "getUserStats" /\ arg \in RecordStatsInputs

SpecStats == InitStats /\ [][GetUserStats]_vars

\* generateRandomUser on every draw
InitGen ==
    Start /\ heap = <<>> /\ op = "generateRandomUser" /\ arg \in GenDraws

SpecGen == InitGen /\ [][GenerateRandomUser]_vars

\* deepCloneObject on a heap, followed by one write by the caller
InitClone ==
    /\ Start /\ op = "deepCloneObject"
    /\ \/ heap \in Heaps /\ arg = Ref(1)
       \/ heap = <<Obj(EmptyFcn)>> /\ arg \in ClonePrims

NextClone == DeepCloneObject \/ MutateClone \/ MutateOriginal

SpecClone == InitClone /\ [][NextClone]_vars

---------------------------------------------------------------------------
(* Properties *)

Returned(name) == pc = "done" /\ op = name

\* every property name that occurs in a value, at any nesting level
RECURSIVE KeysIn(_)
KeysIn(v) ==
    CASE v.t = "object" ->
            DOMAIN v.f \cup DOMAIN v.p
            \cup UNION {KeysIn(v.f[k]) : k \in DOMAIN v.f}
            \cup UNION {KeysIn(v.p[k]) : k \in DOMAIN v.p}
      [] v.t = "array" -> UNION {KeysIn(v.items[i]) : i \in DOMAIN v.items}
      [] OTHER -> {}

TopKeys == {"role", "active", "preferences", "metadata"}
PreferencesKeys == {"theme", "notifications", "language"}
MetadataKeys == {"lastLogin", "loginCount", "createdBy"}

\* the value the caller supplied under key in a section, or the default
SuppliedOrDefault(section, default, key) ==
    {default.f[key]} \cup (IF IsNullish(section) THEN {} ELSE {Get(section, key)})

\* C1 as stated: whenever mergeUserDefaults returns a record, no property
\* name outside the whitelists occurs anywhere in it, at any nesting level.
C1_NoForeignKeyAnywhere ==
    (Returned("mergeUserDefaults") /\ ~IsThrow(res))
        => KeysIn(res) \subseteq TopKeys \cup PreferencesKeys \cup MetadataKeys

\* C1 amended: whenever mergeUserDefaults returns, the result is a plain
\* record whose keys are exactly role,
\* active, preferences, metadata, whose preferences has exactly the keys
\* theme, notifications, language and whose metadata has exactly the keys
\* lastLogin, loginCount, createdBy; each value under a whitelisted key is
\* the default or the value the caller supplied under that key, passed
\* through as it is (so keys inside a supplied value do reach the output).
C1_WhitelistedKeys ==
    (Returned("mergeUserDefaults") /\ ~IsThrow(res)) =>
        /\ res.t = "object" /\ res.p = EmptyFcn
        /\ DOMAIN res.f = TopKeys
        /\ res.f.role \in SuppliedOrDefault(arg, defaults, "role")
        /\ res.f.active \in SuppliedOrDefault(arg, defaults, "active")
        /\ res.f.preferences.t = "object" /\ res.f.preferences.p = EmptyFcn
        /\ DOMAIN res.f.preferences.f = PreferencesKeys
        /\ \A k \in PreferencesKeys :
              res.f.preferences.f[k] \in
                 SuppliedOrDefault(Get(arg, "preferences"), defaults.f.preferences, k)
        /\ res.f.metadata.t = "object" /\ res.f.metadata.p = EmptyFcn
        /\ DOMAIN res.f.metadata.f = MetadataKeys
        /\ \A k \in MetadataKeys :
              res.f.metadata.f[k] \in
                 SuppliedOrDefault(Get(arg, "metadata"), defaults.f.metadata, k)

\* C1 witness: a caller that supplies polluted at the top level, an own
\* __proto__ key and an inherited polluted key in preferences and an object
\* as theme got back a record with that theme.
C1_Witness ==
    /\ Returned("mergeUserDefaults")
    /\ arg.t = "object" /\ "polluted" \in DOMAIN arg.f
    /\ Get(arg, "preferences").t = "object"
    /\ "__proto__" \in DOMAIN Get(arg, "preferences").f
    /\ "polluted" \in DOMAIN Get(arg, "preferences").p
    /\ ~IsThrow(res) /\ res.f.preferences.f.theme = Obj(Polluted)

\* C2 as stated: none of the seven request-path functions raises, whatever
\* its argument.
C2_NeverRaises == pc = "done" => ~IsThrow(res)

\* C5 as stated: validateRequest returns false for every body that is not an
\* object-shaped value, arrays included, and otherwise true exactly when
\* every required field is a key of body whose value converts to a
\* non-empty string.
C5_ArraysRejected ==
    Returned("validateRequest") =>
        res = Bool(/\ arg.body.t = "object"
                   /\ \A i \in DOMAIN arg.requiredFields :
                         /\ arg.requiredFields[i] \in DOMAIN arg.body.f
                         /\ toString(arg.body.f[arg.requiredFields[i]]) # <<>>)

\* C6: processExternalData returns an empty sequence for a non-array; for an
\* array, a sequence of the same length whose i-th record is built from the
\* i-th element: its keys are exactly id, name, email, processedAt, metadata;
\* id, name and email are the element's; metadata holds exactly the keys of
\* the element's metadata that are among lastLogin, loginCount, createdBy,
\* with their values (none when the element has no metadata).
SourceOf(item, key) == IF IsNullish(item) THEN Undef ELSE Get(item, key)

C6_ProcessExternalData ==
    Returned("processExternalData") =>
        IF arg.t # "array" THEN res = Arr(<<>>)
        ELSE /\ res.t = "array" /\ Len(res.items) = Len(arg.items)
             /\ \A i \in DOMAIN arg.items :
                   LET out == res.items[i]
                       src == SourceOf(arg.items[i], "metadata")
                   IN  /\ out.t = "object"
                       /\ DOMAIN out.f = {"id", "name", "email", "processedAt", "metadata"}
                       /\ out.f.id = SourceOf(arg.items[i], "id")
                       /\ out.f.name = SourceOf(arg.items[i], "name")
                       /\ out.f.email = SourceOf(arg.items[i], "email")
                       /\ out.f.processedAt.t = "iso"
                       /\ out.f.metadata.t = "object"
                       /\ DOMAIN out.f.metadata.f \subseteq MetadataKeys
                       /\ \A k \in MetadataKeys :
                             IF src.t = "object" /\ k \in DOMAIN src.f
                             THEN /\ k \in DOMAIN out.f.metadata.f
                                  /\ out.f.metadata.f[k] = src.f[k]
                             ELSE k \notin DOMAIN out.f.metadata.f

\* C6 witness: two elements with different ids, the first with an extra key
\* and a metadata holding lastLogin and extra, were processed.
C6_Witness ==
    /\ Returned("processExternalData")
    /\ arg.t = "array" /\ Len(arg.items) = 2
    /\ arg.items[1].t = "object" /\ arg.items[2].t = "object"
    /\ {"id", "extra", "metadata"} \subseteq DOMAIN arg.items[1].f
    /\ arg.items[1].f.metadata.t = "object"
    /\ "extra" \in DOMAIN arg.items[1].f.metadata.f
    /\ DOMAIN res.items[1].f.metadata.f = {"lastLogin"}
    /\ Get(arg.items[2], "id") = Num(2) /\ arg.items[1].f.id = Num(1)

\* leading or trailing whitespace
Untrimmed(s) == s # <<>> /\ (s[1] \in Whitespace \/ s[Len(s)] \in Whitespace)
HasBracket(s) == \E i \in DOMAIN s : s[i] \in {"<", ">"}

\* C9 as stated: for a string, the result has no bracket and no leading or
\* trailing whitespace and sanitizing it again changes nothing; for any
\* other input the result is the empty string.
C9_Idempotent ==
    Returned("sanitizeInput") =>
        IF IsStringKind(arg)
        THEN /\ ~HasBracket(res.s) /\ ~Untrimmed(res.s)
             /\ sanitizeInput(res) = res
        ELSE res = Str(<<>>)

\* C9 amended: for a string, the result has no bracket; it has no leading or
\* trailing whitespace and is a fixed point of sanitizeInput whenever the
\* trimmed input neither starts nor ends with a bracket; in every case a
\* second application yields a string with no bracket and no leading or
\* trailing whitespace that is a fixed point. For any other input the result
\* is the empty string.
C9_SanitizedTwice ==
    Returned("sanitizeInput") =>
        IF IsStringKind(arg)
        THEN LET t == trim(Chars(arg))
                 twice == sanitizeInput(res)
             IN  /\ res.t = "string" /\ ~HasBracket(res.s)
                 /\ (t = <<>> \/ (t # <<>> /\ ~HasBracket(<<t[1], t[Len(t)]>>)))
                       => (~Untrimmed(res.s) /\ twice = res)
                 /\ ~HasBracket(twice.s) /\ ~Untrimmed(twice.s)
                 /\ sanitizeInput(twice) = twice
        ELSE res = Str(<<>>)

\* C9 witness: "< a" was sanitized to " a", which still starts with a space.
C9_Witness ==
    /\ Returned("sanitizeInput")
    /\ arg = Str(<<"<", " ", "a">>) /\ res = Str(<<" ", "a">>)

\* an array of records whose email, when it is truthy, is a string
RecordArray(v) ==
    /\ v.t = "array"
    /\ \A i \in DOMAIN v.items :
          /\ v.items[i].t = "object"
          /\ ~Truthy(Get(v.items[i], "email")) \/ IsStringKind(Get(v.items[i], "email"))

\* updatedAt if it is there (truthy), else createdAt
LastActivity(user) ==
    IF Truthy(Get(user, "updatedAt")) THEN Get(user, "updatedAt")
    ELSE Get(user, "createdAt")

\* a timestamp that parses and is at most 30 days from Now, before or after
Within30Days(v) ==
    /\ v.t = "iso"
    /\ Now - v.at <= ActiveDays * DayTicks
    /\ v.at - Now <= ActiveDays * DayTicks

\* a timestamp that parses and is less than 31 days before Now, or after Now;
\* a record with no timestamp at all counts as active now
LessThan31DaysAgo(v) ==
    \/ v.t = "undefined"
    \/ v.t = "iso" /\ Now - v.at < (ActiveDays + 1) * DayTicks

\* the counts of stats are those of the positions in actives and the others
CountsAre(users, stats, actives) ==
    /\ stats.f.total = Num(Len(users))
    /\ stats.f.active = Num(Cardinality(actives))
    /\ stats.f.inactive = Num(Cardinality(DOMAIN users \ actives))
    /\ stats.f.active.n + stats.f.inactive.n = stats.f.total.n

\* C3 as stated: for an array of records that have a timestamp, active counts exactly the records
\* whose last-activity timestamp is within 30 days, inclusive, of the current
\* instant; every other record (further away, or unparsable) is inactive;
\* active + inactive = total = the array length.
C3_Within30Days ==
    (/\ Returned("getUserStats") /\ RecordArray(arg)
     /\ \A i \in DOMAIN arg.items : LastActivity(arg.items[i]) # Undef) =>
        /\ ~IsThrow(res)
        /\ CountsAre(arg.items, res,
                     {i \in DOMAIN arg.items : Within30Days(LastActivity(arg.items[i]))})

\* C3 amended: for an array of records, active counts exactly the records
\* whose last-activity timestamp (updatedAt if truthy, else createdAt, else,
\* when the record has neither, the call instant) parses and lies less than
\* 31 days before the current instant, which every later timestamp does,
\* future ones included; every other record, an unparsable timestamp
\* included, is inactive; active + inactive = total = the array length.
C3_LessThan31DaysAgo ==
    (Returned("getUserStats") /\ RecordArray(arg)) =>
        /\ ~IsThrow(res)
        /\ CountsAre(arg.items, res,
                     {i \in DOMAIN arg.items : LessThan31DaysAgo(LastActivity(arg.items[i]))})

\* C3 witness: of two records, the one updated one tick less than 31 days
\* ago was counted active and the one updated exactly 31 days ago inactive.
C3_Witness ==
    /\ Returned("getUserStats") /\ RecordArray(arg) /\ Len(arg.items) = 2
    /\ Get(arg.items[1], "updatedAt") = Iso(Now - (ActiveDays + 1) * DayTicks + 1)
    /\ Get(arg.items[2], "updatedAt") = Iso(Now - (ActiveDays + 1) * DayTicks)
    /\ Get(arg.items[2], "createdAt") = Iso(Now)
    /\ res.f.active = Num(1) /\ res.f.inactive = Num(1)

\* the first position holding the greatest (sign 1) or least (sign -1)
\* createdAt instant
FirstBest(users, sign) ==
    CHOOSE i \in DOMAIN users :
        /\ \A j \in DOMAIN users :
              sign * users[j].f.createdAt.at <= sign * users[i].f.createdAt.at
        /\ \A j \in 1..(i - 1) :
              sign * users[j].f.createdAt.at < sign * users[i].f.createdAt.at

\* C4 as stated: for a non-empty array of records with parsable createdAt,
\* newest is the first record with the maximum createdAt instant and oldest
\* the first with the minimum, so a record strictly later (earlier) than all
\* others is the newest (oldest).
C4_ExtremeInstants ==
    (/\ Returned("getUserStats") /\ RecordArray(arg) /\ arg.items # <<>>
     /\ \A i \in DOMAIN arg.items : Get(arg.items[i], "createdAt").t = "iso")
    => /\ ~IsThrow(res)
       /\ res.f.newest = arg.items[FirstBest(arg.items, 1)]
       /\ res.f.oldest = arg.items[FirstBest(arg.items, -1)]

\* the number of separators in a string
AtCount(s) == Cardinality({i \in DOMAIN s : s[i] = "@"})

EmailText(user) ==
    IF Truthy(Get(user, "email")) THEN Chars(Get(user, "email")) ELSE <<>>

\* the domain of an e-mail with at most one separator: what follows it, or
\* unknown when there is none
DomainOf(s) ==
    IF AtCount(s) = 0 THEN Unknown
    ELSE LET at == CHOOSE i \in DOMAIN s : s[i] = "@"
         IN  SubSeq(s, at + 1, Len(s))

RECURSIVE SumOver(_, _)
SumOver(f, keys) ==
    IF keys = {} THEN 0
    ELSE LET k == CHOOSE k \in keys : TRUE
         IN  f[k] + SumOver(f, keys \ {k})

C10_GeneratedUserValid ==
    Returned("generateRandomUser") =>
        LET username == res.f.username.s
            email == res.f.email.s
        IN  /\ isValidUsername(res.f.username) = Bool(TRUE)
            /\ Len(username) \in 3..20
            /\ \A i \in DOMAIN username :
                  username[i] \in LowerChars \cup UpperChars \cup DigitChars \cup {"_"}
            /\ \E d \in DOMAIN domains : email = username \o <<"@">> \o domains[d]
            /\ AtCount(email) = 1

\* C10 witness: the longest username, michaelrodriguez999, was generated.
C10_Witness ==
    /\ Returned("generateRandomUser")
    /\ arg.first = 3 /\ arg.last = 9 /\ arg.number = 999
    /\ Len(res.f.username.s) = 19
    /\ res.f.username.s[1] = "m" /\ res.f.username.s[19] = "9"

\* no container below root contains itself
Acyclic(h, root) ==
    \A r \in Reach(h, root) : r \notin ReachFrom(h, CellRefs(h[r]), {})

\* the value below root, with every reference replaced by what it refers to
RECURSIVE Deep(_, _)
Deep(h, v) ==
    IF ~IsRef(v) THEN v
    ELSE IF h[v.r].t = "array"
         THEN Arr([i \in DOMAIN h[v.r].items |-> Deep(h, h[v.r].items[i])])
         ELSE Obj([k \in DOMAIN h[v.r].f |-> Deep(h, h[v.r].f[k])])

\* the primitives below root
RECURSIVE Leaves(_)
Leaves(v) ==
    CASE v.t = "array" -> UNION {Leaves(v.items[i]) : i \in DOMAIN v.items}
      [] v.t = "object" -> UNION {Leaves(v.f[k]) : k \in DOMAIN v.f}
      [] OTHER -> {v}

\* built from null, booleans, finite numbers and strings only
Representable(h, root) ==
    \A leaf \in Leaves(Deep(h, root)) :
        leaf.t \in {"null", "boolean", "number", "string"}

NoSharing(h, a, b) == Reach(h, a) \cap Reach(h, b) = {}

\* C7 as stated: for every acyclic value built from primitives, arrays and
\* objects, deepCloneObject returns a value deep-equal to the input that
\* shares no container with it.
C7_DeepEqualForEveryPrimitive ==
    (Returned("deepCloneObject") /\ Acyclic(heap, arg)) =>
        /\ ~IsThrow(res)
        /\ Deep(heap, res) = Deep(heap, arg)
        /\ NoSharing(heap, res, arg)

CloneInvariant ==
    (Returned("deepCloneObject") /\ Acyclic(heap, arg)) =>
        /\ Representable(heap, arg) =>
              ~IsThrow(res) /\ Deep(heap, res) = Deep(heap, arg)
        /\ ~IsThrow(res) => NoSharing(heap, res, arg)

WriteLeavesOtherSide ==
    /\ (pc = "done" /\ pc' = "mutatedClone") =>
          (Deep(heap', arg') = Deep(heap, arg) /\ Deep(heap', res') # Deep(heap, res))
    /\ (pc = "done" /\ pc' = "mutatedOriginal") =>
          (Deep(heap', res') = Deep(heap, res) /\ Deep(heap', arg') # Deep(heap, arg))

\* C7 amended: for every acyclic value built from null, booleans, finite
\* numbers, strings, arrays and objects, deepCloneObject returns a value
\* deep-equal to the input; whenever it returns (an undefined or NaN inside
\* the input is dropped or becomes null), the result shares no container
\* with the input at any nesting level, so a later write into a container
\* of the clone changes the clone and leaves the original as it was, and a
\* later write into a container of the original leaves the clone as it was.
C7_CloneIndependent == [](CloneInvariant) /\ [][WriteLeavesOtherSide]_vars

\* C7 witness: {a: {b: 1}} was cloned and the clone's inner object written
\* to, giving {a: {b: 7}}, while the original is still {a: {b: 1}}.
C7_Witness ==
    /\ pc = "mutatedClone" /\ arg = Ref(1)
    /\ Deep(heap, arg) = Obj([a |-> Obj([b |-> Num(1)])])
    /\ Deep(heap, res) = Obj([a |-> Obj([b |-> Written])])

===========================================================================
